---- MODULE Spec2Model ----
(***************************************************************************)
(* A model of music-watcher: the D-Bus event loop of dbus.go               *)
(* (StartWatching, handleNewPlayer, handlePropertyChange, the player       *)
(* registry, the metadata decoder and the duplicate filter) and the        *)
(* storage engine of database.go (StoreData and its helpers).              *)
(*                                                                         *)
(* A Go string is modelled as a sequence of segments, so that              *)
(* strings.HasPrefix and strings.HasSuffix are computed and not looked up. *)
(* A dbus.Variant is a record [t, v]: t is the dynamic type of the value   *)
(* ("s" string, "as" []string, "i" an integer, "d" map[string]Variant).    *)
(* A Go map is a function whose DOMAIN is the set of keys present.         *)
(***************************************************************************)
EXTENDS Integers, Sequences, FiniteSets, TLC

VARIABLES pc, ret, sigPending, busNameToName, nameToBusName, nameToCurrent, ev,
          db, call, nCalls, nAccepted, txs, dec, op

vars == <<pc, ret, sigPending, busNameToName, nameToBusName, nameToCurrent, ev,
          db, call, nCalls, nAccepted, txs, dec, op>>

watchVars == <<pc, ret, sigPending, busNameToName, nameToBusName, nameToCurrent, ev>>

storeVars == <<db, call, nCalls, nAccepted, txs>>

\* The decoder call and the registry call made last.
unitVars == <<dec, op>>

(***************************************************************************)
(* Bounds of the model.                                                    *)
(***************************************************************************)
\* The longest signal body the bus delivers in the model.
MaxBodyLen == 4

\* The number of StoreData calls made in one behaviour.
MaxCalls == 2

(***************************************************************************)
(* Strings, variants and Go maps.                                          *)
(***************************************************************************)
EmptyStr == <<>>

HasPrefix(s, prefix) ==
    /\ Len(s) >= Len(prefix)
    /\ SubSeq(s, 1, Len(prefix)) = prefix

HasSuffix(s, suffix) ==
    /\ Len(s) >= Len(suffix)
    /\ SubSeq(s, Len(s) - Len(suffix) + 1, Len(s)) = suffix

VStr(s) == [t |-> "s", v |-> s]

VList(l) == [t |-> "as", v |-> l]

VInt == [t |-> "i", v |-> <<"7">>]

VDict(m) == [t |-> "d", v |-> m]

Absent == [t |-> "absent", v |-> <<>>]

\* The map holding the keys of full whose value is present.
MkMap(full) ==
    [k \in {x \in DOMAIN full : full[x] # Absent} |-> full[k]]

Put(m, k, val) == [x \in (DOMAIN m) \cup {k} |-> IF x = k THEN val ELSE m[x]]

Delete(m, k) == [x \in (DOMAIN m) \ {k} |-> m[x]]

EmptyMap == [x \in {} |-> x]

\* v.(string): the value and the ok flag of a Go type assertion.
AsString(val) == [v |-> IF val.t = "s" THEN val.v ELSE EmptyStr, ok |-> val.t = "s"]

\* v.(map[string]dbus.Variant)
AsDict(val) == [v |-> IF val.t = "d" THEN val.v ELSE EmptyMap, ok |-> val.t = "d"]

(***************************************************************************)
(* Errors and log entries.                                                 *)
(***************************************************************************)
nil == "nil"

ErrMetadataFailed == "ErrMetadataFailed"

ErrInvalidType == "ErrInvalidType"

ErrInvalidSignalBody == "ErrInvalidSignalBody"

Log(fn, level, msg) == [fn |-> fn, level |-> level, msg |-> msg]

(***************************************************************************)
(* Metadata, its decoder and the duplicate filter.                         *)
(***************************************************************************)
Metadata(album, albumArtist, url, artist, composer, trackId, title) ==
    [Album |-> album, AlbumArtist |-> albumArtist, Url |-> url, Artist |-> artist,
     Composer |-> composer, TrackId |-> trackId, Title |-> title]

\* A getAny that returns the value whatever its dynamic type.
getAnyUnchecked(T, value) == [v |-> value.v, err |-> nil]

\* getAny[T]: the value when its dynamic type is T, else T's zero value and
\* ErrInvalidType.  The zero value of string and of []string has length 0.
getAny(T, value) ==
    IF value.t = T
    THEN [v |-> value.v, err |-> nil]
    ELSE [v |-> <<>>, err |-> ErrInvalidType]

\* The field of the record that one key of the property map decodes to: the
\* default when the key is absent, getAny's value when it is present.
Field(metaMap, key, T) ==
    IF key \in DOMAIN metaMap THEN getAny(T, metaMap[key]).v ELSE <<>>

parseMetadata(metaMap) ==
    Metadata(Field(metaMap, "xesam:album", "s"),
             Field(metaMap, "xesam:albumArtist", "as"),
             Field(metaMap, "xesam:url", "s"),
             Field(metaMap, "xesam:artist", "as"),
             Field(metaMap, "xesam:composer", "as"),
             Field(metaMap, "mb:trackId", "s"),
             Field(metaMap, "xesam:title", "s"))

\* The log lines parseMetadata writes.
parseMetadataLogs(metaMap) ==
    IF "xesam:title" \in DOMAIN metaMap /\ getAny("s", metaMap["xesam:title"]).err # nil
    THEN {Log("parseMetadata", "WARN", "Failed to extract title from track, assuming blank")}
    ELSE {}

\* A filter that compares the url alone.
IsSameTrackUrlOnly(m, other) == m.Url = other.Url

IsSameTrack(m, other) == m.Url = other.Url /\ m.Title = other.Title

(***************************************************************************)
(* The player registry.                                                    *)
(***************************************************************************)
filteredPlayers == << <<"playerctld">> >>

playerPrefix == <<"org.mpris.MediaPlayer2.">>

\* A filter that matches the blocklist against the start of the name.
isFilteredPlayerByPrefix(serviceName) ==
    \E i \in 1..Len(filteredPlayers) : HasPrefix(serviceName, filteredPlayers[i])

isFilteredPlayer(serviceName) ==
    \E i \in 1..Len(filteredPlayers) : HasSuffix(serviceName, filteredPlayers[i])

\* The reply of the bus to GetNameOwner: a connection id, or a failed call.
LookupFailed == [ok |-> FALSE, busName |-> EmptyStr]

LookupOk(b) == [ok |-> TRUE, busName |-> b]

\* A registration that records the service-to-connection direction only.
addPlayerOneWay(b2n, n2b, name, lookup) ==
    IF ~lookup.ok
    THEN [busNameToName |-> b2n, nameToBusName |-> n2b, err |-> "ErrBusCall"]
    ELSE [busNameToName |-> b2n,
          nameToBusName |-> Put(n2b, name, lookup.busName),
          err |-> nil]

\* addPlayer: both maps after the call, and the error returned.
addPlayer(b2n, n2b, name, lookup) ==
    IF ~lookup.ok
    THEN [busNameToName |-> b2n, nameToBusName |-> n2b, err |-> "ErrBusCall"]
    ELSE [busNameToName |-> Put(b2n, lookup.busName, name),
          nameToBusName |-> Put(n2b, name, lookup.busName),
          err |-> nil]

\* A removal that deletes the service-to-connection entry alone.
removePlayerOneWay(b2n, n2b, name, pick) ==
    [busNameToName |-> b2n,
     nameToBusName |-> Delete(n2b, name),
     logs |-> IF name \in DOMAIN n2b THEN {}
              ELSE {Log("removePlayer", "WARN", "Attempted to remove player not in mapping")}]

\* removePlayer: both maps after the call, and the log lines written.  The
\* linear scan deletes one entry of busNameToName that points at name; Go's
\* map iteration order picks which one.
removePlayer(b2n, n2b, name, pick) ==
    IF name \notin DOMAIN n2b
    THEN [busNameToName |-> IF pick \in DOMAIN b2n /\ b2n[pick] = name
                            THEN Delete(b2n, pick) ELSE b2n,
          nameToBusName |-> n2b,
          logs |-> {Log("removePlayer", "WARN", "Attempted to remove player not in mapping")}]
    ELSE IF n2b[name] \in DOMAIN b2n
    THEN [busNameToName |-> Delete(b2n, n2b[name]),
          nameToBusName |-> Delete(n2b, name),
          logs |-> {}]
    ELSE [busNameToName |-> b2n,
          nameToBusName |-> Delete(n2b, name),
          logs |-> {Log("removePlayer", "WARN", "Found player in name -> bus but not bus -> name")}]

\* The entries of busNameToName the linear scan of removePlayer may delete.
ScanPicks(b2n, name) ==
    IF \E b \in DOMAIN b2n : b2n[b] = name
    THEN {b \in DOMAIN b2n : b2n[b] = name}
    ELSE {EmptyStr}

(***************************************************************************)
(* The per-signal handlers.  A handler's result is the registry after the  *)
(* call, the error returned, the records passed to the callback, the names *)
(* a name-owner lookup and a metadata fetch were issued for, the log lines *)
(* written, and whether the handler panicked.                              *)
(***************************************************************************)
Result(b2n, n2b, cur, err, cb, lookups, fetches, logs, panicked) ==
    [busNameToName |-> b2n, nameToBusName |-> n2b, nameToCurrent |-> cur,
     err |-> err, cb |-> cb, lookups |-> lookups, fetches |-> fetches,
     logs |-> logs, panicked |-> panicked]

\* The reply to the Properties.Get call of GetMetadata.
FetchFailed == [ok |-> FALSE, meta |-> EmptyMap]

FetchOk(metaMap) == [ok |-> TRUE, meta |-> metaMap]

\* GetMetadata: the decoded record and the error.
GetMetadata(fetch) ==
    IF ~fetch.ok
    THEN [metadata |-> parseMetadata(EmptyMap), err |-> ErrMetadataFailed, logs |-> {}]
    ELSE [metadata |-> parseMetadata(fetch.meta), err |-> nil,
          logs |-> parseMetadataLogs(fetch.meta)]

\* handleNewPlayer.  name, newOwner and oldOwner are all read from the first
\* element of the body, as the code does.
handleNewPlayer(b2n, n2b, cur, body, lookup, fetch, cbErr, pick) ==
    IF Len(body) # 3
    THEN Result(b2n, n2b, cur, ErrInvalidSignalBody, <<>>, <<>>, <<>>, {}, FALSE)
    ELSE
    LET name == AsString(body[1])
        newOwner == AsString(body[1])
        oldOwner == AsString(body[1])
    IN
    IF ~name.ok \/ ~newOwner.ok \/ ~oldOwner.ok
    THEN Result(b2n, n2b, cur, ErrInvalidSignalBody, <<>>, <<>>, <<>>, {}, FALSE)
    ELSE IF ~HasPrefix(name.v, playerPrefix)
    THEN Result(b2n, n2b, cur, nil, <<>>, <<>>, <<>>, {}, FALSE)
    ELSE IF oldOwner.v = newOwner.v
    THEN \* Connected
         LET added == addPlayer(b2n, n2b, name.v, lookup)
             got == GetMetadata(fetch)
         IN
         IF isFilteredPlayer(name.v)
         THEN Result(added.busNameToName, added.nameToBusName, cur, nil,
                     <<>>, <<name.v>>, <<>>,
                     {Log("handleNewPlayer", "DEBUG", "Ignoring filtered player")}, FALSE)
         ELSE IF got.err # nil
         THEN Result(added.busNameToName, added.nameToBusName, cur, got.err,
                     <<>>, <<name.v>>, <<name.v>>, got.logs, FALSE)
         ELSE Result(added.busNameToName, added.nameToBusName,
                     Put(cur, name.v, got.metadata), cbErr,
                     <<got.metadata>>, <<name.v>>, <<name.v>>, got.logs, FALSE)
    ELSE \* Disconnected
         LET removed == removePlayer(b2n, n2b, name.v, pick)
         IN Result(removed.busNameToName, removed.nameToBusName, cur, nil,
                   <<>>, <<>>, <<>>, removed.logs, FALSE)

\* A handler that looks for Metadata before it looks for PlaybackStatus.
handlePropertyChangeMetadataFirst(b2n, n2b, cur, sender, body, cbErr) ==
    IF sender \notin DOMAIN b2n
    THEN Result(b2n, n2b, cur, nil, <<>>, <<>>, <<>>,
                {Log("handlePropertyChange", "WARN", "Received signal from unknown player, ignoring")},
                FALSE)
    ELSE
    LET name == b2n[sender]
        detected == Log("handlePropertyChange", "DEBUG", "Detected change in player")
    IN
    IF isFilteredPlayer(name)
    THEN Result(b2n, n2b, cur, nil, <<>>, <<>>, <<>>,
                {Log("handlePropertyChange", "DEBUG", "Ignoring filtered player")}, FALSE)
    ELSE IF Len(body) < 1
    THEN Result(b2n, n2b, cur, ErrInvalidSignalBody, <<>>, <<>>, <<>>, {detected}, FALSE)
    ELSE IF Len(body) < 2
    THEN Result(b2n, n2b, cur, "panic: index out of range", <<>>, <<>>, <<>>, {detected}, TRUE)
    ELSE
    LET changed == AsDict(body[2])
    IN
    IF ~changed.ok
    THEN Result(b2n, n2b, cur, ErrInvalidSignalBody, <<>>, <<>>, <<>>, {detected}, FALSE)
    ELSE IF "Metadata" \notin DOMAIN changed.v
    THEN Result(b2n, n2b, cur,
                IF "PlaybackStatus" \in DOMAIN changed.v THEN nil ELSE ErrMetadataFailed,
                <<>>, <<>>, <<>>, {detected}, FALSE)
    ELSE
    LET metadata == AsDict(changed.v["Metadata"])
    IN
    IF ~metadata.ok
    THEN Result(b2n, n2b, cur, ErrMetadataFailed, <<>>, <<>>, <<>>,
                {detected, Log("handlePropertyChange", "DEBUG", "Received invalid type for metadata")},
                FALSE)
    ELSE
    LET metaParsed == parseMetadata(metadata.v)
        parseLogs == parseMetadataLogs(metadata.v)
    IN
    IF name \notin DOMAIN cur \/ ~IsSameTrack(cur[name], metaParsed)
    THEN Result(b2n, n2b, Put(cur, name, metaParsed), cbErr, <<metaParsed>>, <<>>, <<>>,
                {detected} \cup parseLogs, FALSE)
    ELSE Result(b2n, n2b, cur, nil, <<>>, <<>>, <<>>,
                {detected, Log("handlePropertyChange", "DEBUG", "Received duplicate notification")}
                    \cup parseLogs, FALSE)

\* A handler that stores the decoded record before it filters duplicates.
handlePropertyChangeAlwaysCaches(b2n, n2b, cur, sender, body, cbErr) ==
    IF sender \notin DOMAIN b2n
    THEN Result(b2n, n2b, cur, nil, <<>>, <<>>, <<>>,
                {Log("handlePropertyChange", "WARN", "Received signal from unknown player, ignoring")},
                FALSE)
    ELSE
    LET name == b2n[sender]
        detected == Log("handlePropertyChange", "DEBUG", "Detected change in player")
    IN
    IF isFilteredPlayer(name)
    THEN Result(b2n, n2b, cur, nil, <<>>, <<>>, <<>>,
                {Log("handlePropertyChange", "DEBUG", "Ignoring filtered player")}, FALSE)
    ELSE IF Len(body) < 1
    THEN Result(b2n, n2b, cur, ErrInvalidSignalBody, <<>>, <<>>, <<>>, {detected}, FALSE)
    ELSE IF Len(body) < 2
    THEN Result(b2n, n2b, cur, "panic: index out of range", <<>>, <<>>, <<>>, {detected}, TRUE)
    ELSE
    LET changed == AsDict(body[2])
    IN
    IF ~changed.ok
    THEN Result(b2n, n2b, cur, ErrInvalidSignalBody, <<>>, <<>>, <<>>, {detected}, FALSE)
    ELSE IF "PlaybackStatus" \in DOMAIN changed.v
    THEN Result(b2n, n2b, cur, nil, <<>>, <<>>, <<>>, {detected}, FALSE)
    ELSE IF "Metadata" \notin DOMAIN changed.v
    THEN Result(b2n, n2b, cur, ErrMetadataFailed, <<>>, <<>>, <<>>, {detected}, FALSE)
    ELSE
    LET metadata == AsDict(changed.v["Metadata"])
    IN
    IF ~metadata.ok
    THEN Result(b2n, n2b, cur, ErrMetadataFailed, <<>>, <<>>, <<>>,
                {detected, Log("handlePropertyChange", "DEBUG", "Received invalid type for metadata")},
                FALSE)
    ELSE
    LET metaParsed == parseMetadata(metadata.v)
        parseLogs == parseMetadataLogs(metadata.v)
    IN
    IF name \notin DOMAIN cur \/ ~IsSameTrack(cur[name], metaParsed)
    THEN Result(b2n, n2b, Put(cur, name, metaParsed), cbErr, <<metaParsed>>, <<>>, <<>>,
                {detected} \cup parseLogs, FALSE)
    ELSE Result(b2n, n2b, Put(cur, name, metaParsed), nil, <<>>, <<>>, <<>>,
                {detected, Log("handlePropertyChange", "DEBUG", "Received duplicate notification")}
                    \cup parseLogs, FALSE)

\* A handler that replaces the cache by the sender's entry alone.
handlePropertyChangeResetsCache(b2n, n2b, cur, sender, body, cbErr) ==
    IF sender \notin DOMAIN b2n
    THEN Result(b2n, n2b, cur, nil, <<>>, <<>>, <<>>,
                {Log("handlePropertyChange", "WARN", "Received signal from unknown player, ignoring")},
                FALSE)
    ELSE
    LET name == b2n[sender]
        detected == Log("handlePropertyChange", "DEBUG", "Detected change in player")
    IN
    IF isFilteredPlayer(name)
    THEN Result(b2n, n2b, cur, nil, <<>>, <<>>, <<>>,
                {Log("handlePropertyChange", "DEBUG", "Ignoring filtered player")}, FALSE)
    ELSE IF Len(body) < 1
    THEN Result(b2n, n2b, cur, ErrInvalidSignalBody, <<>>, <<>>, <<>>, {detected}, FALSE)
    ELSE IF Len(body) < 2
    THEN Result(b2n, n2b, cur, "panic: index out of range", <<>>, <<>>, <<>>, {detected}, TRUE)
    ELSE
    LET changed == AsDict(body[2])
    IN
    IF ~changed.ok
    THEN Result(b2n, n2b, cur, ErrInvalidSignalBody, <<>>, <<>>, <<>>, {detected}, FALSE)
    ELSE IF "PlaybackStatus" \in DOMAIN changed.v
    THEN Result(b2n, n2b, cur, nil, <<>>, <<>>, <<>>, {detected}, FALSE)
    ELSE IF "Metadata" \notin DOMAIN changed.v
    THEN Result(b2n, n2b, cur, ErrMetadataFailed, <<>>, <<>>, <<>>, {detected}, FALSE)
    ELSE
    LET metadata == AsDict(changed.v["Metadata"])
    IN
    IF ~metadata.ok
    THEN Result(b2n, n2b, cur, ErrMetadataFailed, <<>>, <<>>, <<>>,
                {detected, Log("handlePropertyChange", "DEBUG", "Received invalid type for metadata")},
                FALSE)
    ELSE
    LET metaParsed == parseMetadata(metadata.v)
        parseLogs == parseMetadataLogs(metadata.v)
    IN
    IF name \notin DOMAIN cur \/ ~IsSameTrack(cur[name], metaParsed)
    THEN Result(b2n, n2b, Put(EmptyMap, name, metaParsed), cbErr, <<metaParsed>>, <<>>, <<>>,
                {detected} \cup parseLogs, FALSE)
    ELSE Result(b2n, n2b, cur, nil, <<>>, <<>>, <<>>,
                {detected, Log("handlePropertyChange", "DEBUG", "Received duplicate notification")}
                    \cup parseLogs, FALSE)

\* handlePropertyChange.  The length check admits a body of one element, and
\* the index expression sig.Body[1] then panics.
handlePropertyChange(b2n, n2b, cur, sender, body, cbErr) ==
    IF sender \notin DOMAIN b2n
    THEN Result(b2n, n2b, cur, nil, <<>>, <<>>, <<>>,
                {Log("handlePropertyChange", "WARN", "Received signal from unknown player, ignoring")},
                FALSE)
    ELSE
    LET name == b2n[sender]
        detected == Log("handlePropertyChange", "DEBUG", "Detected change in player")
    IN
    IF isFilteredPlayer(name)
    THEN Result(b2n, n2b, cur, nil, <<>>, <<>>, <<>>,
                {Log("handlePropertyChange", "DEBUG", "Ignoring filtered player")}, FALSE)
    ELSE IF Len(body) < 1
    THEN Result(b2n, n2b, cur, ErrInvalidSignalBody, <<>>, <<>>, <<>>, {detected}, FALSE)
    ELSE IF Len(body) < 2
    THEN Result(b2n, n2b, cur, "panic: index out of range", <<>>, <<>>, <<>>, {detected}, TRUE)
    ELSE
    LET changed == AsDict(body[2])
    IN
    IF ~changed.ok
    THEN Result(b2n, n2b, cur, ErrInvalidSignalBody, <<>>, <<>>, <<>>, {detected}, FALSE)
    ELSE IF "PlaybackStatus" \in DOMAIN changed.v
    THEN Result(b2n, n2b, cur, nil, <<>>, <<>>, <<>>, {detected}, FALSE)
    ELSE IF "Metadata" \notin DOMAIN changed.v
    THEN Result(b2n, n2b, cur, ErrMetadataFailed, <<>>, <<>>, <<>>, {detected}, FALSE)
    ELSE
    LET metadata == AsDict(changed.v["Metadata"])
    IN
    IF ~metadata.ok
    THEN Result(b2n, n2b, cur, ErrMetadataFailed, <<>>, <<>>, <<>>,
                {detected, Log("handlePropertyChange", "DEBUG", "Received invalid type for metadata")},
                FALSE)
    ELSE
    LET metaParsed == parseMetadata(metadata.v)
        parseLogs == parseMetadataLogs(metadata.v)
    IN
    IF name \notin DOMAIN cur \/ ~IsSameTrack(cur[name], metaParsed)
    THEN Result(b2n, n2b, Put(cur, name, metaParsed), cbErr, <<metaParsed>>, <<>>, <<>>,
                {detected} \cup parseLogs, FALSE)
    ELSE Result(b2n, n2b, cur, nil, <<>>, <<>>, <<>>,
                {detected, Log("handlePropertyChange", "DEBUG", "Received duplicate notification")}
                    \cup parseLogs, FALSE)

(***************************************************************************)
(* The signals the bus delivers.                                           *)
(***************************************************************************)
Demo == playerPrefix \o <<"demo">>

Playerctld == playerPrefix \o <<"playerctld">>

Conn1 == <<":1.", "10">>

Conn2 == <<":1.", "11">>

\* The sender of ownership-change signals.
BusDaemon == <<"org.freedesktop.DBus">>

\* The connection ids a name-owner lookup may return.
BusNames == {Conn1, Conn2}

\* The senders of property-change signals: a connection is unknown to the
\* registry until a lookup has returned it.
Senders == BusNames

\* The names whose owner changes: player names, and a connection's own id.
ChangedNames == {Demo, Playerctld, Conn1}

\* body resized to k elements (cut, or padded with empty strings).
Resize(body, k) ==
    [i \in 1..k |-> IF i <= Len(body) THEN body[i] ELSE VStr(EmptyStr)]

OwnerVals == {VStr(EmptyStr), VStr(Conn1)}

OwnerBodies ==
    {<<VStr(n), o, w>> : n \in ChangedNames, o \in OwnerVals, w \in OwnerVals}
    \cup {<<VInt, VStr(EmptyStr), VStr(Conn1)>>,
          <<VStr(Playerctld), VInt, VStr(Conn1)>>,
          <<VStr(Playerctld), VStr(EmptyStr), VInt>>}
    \cup {Resize(<<VStr(Demo), VStr(EmptyStr), VStr(Conn1)>>, k) : k \in (0..MaxBodyLen) \ {3}}

RawMeta(title, url, album, trackId) ==
    MkMap(("xesam:title" :> title) @@ ("xesam:url" :> url)
          @@ ("xesam:album" :> album) @@ ("mb:trackId" :> trackId))

\* The Metadata property maps players send: a title that is a string or is
\* mistyped, and one track re-announced with an album and a track id.
RawMetas ==
    {RawMeta(t, VStr(<<"u">>), Absent, Absent) : t \in {VStr(<<"t">>), VStr(<<"t2">>), VInt}}
    \cup {RawMeta(VStr(<<"t">>), VStr(<<"u">>), VStr(<<"a">>), VStr(<<"x">>))}

LookupReplies == {LookupFailed} \cup {LookupOk(b) : b \in BusNames}

\* The Metadata snapshots a player returns on connect.
FetchMetas ==
    {RawMeta(t, VStr(<<"u">>), Absent, Absent) : t \in {VStr(<<"t">>)}}

FetchReplies == {FetchFailed} \cup {FetchOk(m) : m \in FetchMetas}

CallbackErrors == {nil, "ErrCallback"}

\* The changed-property maps of property-change signals.
ChangedMaps ==
    {MkMap([Metadata |-> m, PlaybackStatus |-> Absent]) :
        m \in {Absent, VInt} \cup {VDict(r) : r \in RawMetas}}
    \cup {MkMap([Metadata |-> m, PlaybackStatus |-> VStr(<<"Playing">>)]) :
        m \in {Absent, VDict(RawMeta(VStr(<<"t2">>), VStr(<<"u">>), Absent, Absent))}}

PropBody(changed) ==
    <<VStr(<<"org.mpris.MediaPlayer2.Player">>), changed, VList(<<>>)>>

PropBodies ==
    {PropBody(VDict(c)) : c \in ChangedMaps}
    \cup {PropBody(VInt)}
    \cup {Resize(PropBody(VDict(EmptyMap)), k) : k \in (0..MaxBodyLen) \ {3}}

(***************************************************************************)
(* The event loop of StartWatching.  ev records the signal handled last:   *)
(* what arrived, the registry it found (pre), the replies the handler      *)
(* consumed and what it did.                                               *)
(***************************************************************************)
NoEvent == [kind |-> "none"]

Event(kind, sender, body, lookup, fetch, r, loopLogs) ==
    [kind |-> kind, sender |-> sender, body |-> body,
     pre |-> [busNameToName |-> busNameToName, nameToBusName |-> nameToBusName,
              nameToCurrent |-> nameToCurrent],
     lookup |-> IF r.lookups = <<>> THEN LookupFailed ELSE lookup,
     fetch |-> IF r.fetches = <<>> THEN FetchFailed ELSE fetch,
     err |-> r.err, cb |-> r.cb, lookups |-> r.lookups, fetches |-> r.fetches,
     logs |-> r.logs, loopLogs |-> loopLogs, panicked |-> r.panicked]

\* The replies a handler consumes are drawn only when it asks for them.
Drawn(used, replies, unused) == IF used THEN replies ELSE {unused}

\* The registry and the loop after a handler returned result r.  The loop
\* drops the handler's error; a panic ends the goroutine and the process.
Dispatch(kind, sender, body, lookup, fetch, r) ==
    /\ busNameToName' = r.busNameToName
    /\ nameToBusName' = r.nameToBusName
    /\ nameToCurrent' = r.nameToCurrent
    /\ ev' = Event(kind, sender, body, lookup, fetch, r, {})
    /\ pc' = IF r.panicked THEN "panicked" ELSE "running"
    /\ UNCHANGED <<ret, sigPending>>

\* conn.AddMatchSignalContext twice; either failure is returned at once.
Subscribe ==
    /\ pc = "setup"
    /\ \E ok1 \in BOOLEAN, ok2 \in BOOLEAN :
        /\ pc' = IF ok1 /\ ok2 THEN "running" ELSE "returned"
        /\ ret' = IF ok1 /\ ok2 THEN ret ELSE "ErrSubscribe"
    /\ UNCHANGED <<sigPending, busNameToName, nameToBusName, nameToCurrent, ev>>
    /\ UNCHANGED <<storeVars, unitVars>>

\* case sig := <-dbusChan, sig.Name = nameOwnerSignal
OwnerChanged ==
    /\ pc = "running"
    /\ \E sender \in {BusDaemon}, body \in OwnerBodies :
       LET dry == handleNewPlayer(busNameToName, nameToBusName, nameToCurrent,
                                  body, LookupFailed, FetchFailed, nil, EmptyStr)
       IN
       \E lookup \in Drawn(dry.lookups # <<>>, LookupReplies, LookupFailed),
          fetch \in Drawn(dry.fetches # <<>>, FetchReplies, FetchFailed) :
       \E cbErr \in Drawn(fetch.ok, CallbackErrors, nil),
          pick \in IF Len(body) = 3
                   THEN ScanPicks(busNameToName, AsString(body[1]).v)
                   ELSE {EmptyStr} :
          Dispatch("owner", sender, body, lookup, fetch,
                   handleNewPlayer(busNameToName, nameToBusName, nameToCurrent,
                                   body, lookup, fetch, cbErr, pick))
    /\ UNCHANGED <<storeVars, unitVars>>

\* case sig := <-dbusChan, sig.Name = propertySignal
PropertiesChanged ==
    /\ pc = "running"
    /\ \E sender \in Senders, body \in PropBodies :
       LET dry == handlePropertyChange(busNameToName, nameToBusName, nameToCurrent,
                                       sender, body, nil)
       IN
       \E cbErr \in Drawn(dry.cb # <<>>, CallbackErrors, nil) :
          Dispatch("prop", sender, body, LookupFailed, FetchFailed,
                   handlePropertyChange(busNameToName, nameToBusName, nameToCurrent,
                                        sender, body, cbErr))
    /\ UNCHANGED <<storeVars, unitVars>>

\* case sig := <-dbusChan with any other signal name: no case of the switch.
OtherSignal ==
    /\ pc = "running"
    /\ ev' = [kind |-> "other"]
    /\ UNCHANGED <<pc, ret, sigPending, busNameToName, nameToBusName, nameToCurrent>>
    /\ UNCHANGED <<storeVars, unitVars>>

\* The OS delivers SIGINT or SIGTERM; sigChan buffers one signal.
DeliverOSSignal ==
    /\ pc = "running"
    /\ ~sigPending
    /\ sigPending' = TRUE
    /\ UNCHANGED <<pc, ret, busNameToName, nameToBusName, nameToCurrent, ev>>
    /\ UNCHANGED <<storeVars, unitVars>>

\* case <-sigChan
Shutdown ==
    /\ pc = "running"
    /\ sigPending
    /\ sigPending' = FALSE
    /\ pc' = "returned"
    /\ ret' = nil
    /\ ev' = [kind |-> "shutdown",
              loopLogs |-> {Log("StartWatching", "INFO", "Received shutdown signal")}]
    /\ UNCHANGED <<busNameToName, nameToBusName, nameToCurrent>>
    /\ UNCHANGED <<storeVars, unitVars>>

(***************************************************************************)
(* The storage engine.  The database is one sequence of rows per table; a  *)
(* row's id (INTEGER PRIMARY KEY) is its position, as no row is deleted.   *)
(* A transaction tx holds the database as it was at BeginTx (before), the  *)
(* database as the transaction sees it (db), the number n of statements    *)
(* executed, the error of the failed statement and its state.  The         *)
(* statement numbered failAt fails; failAt = 0 fails none.                 *)
(***************************************************************************)
NULL == 0

ErrInvalidAlbumName == "ErrInvalidAlbumName"

EmptyDB == [Album |-> <<>>, Track |-> <<>>, Person |-> <<>>,
            Track_Person |-> <<>>, TrackLog |-> <<>>]

\* One more statement is sent to the database: it fails or it succeeds.
Failing(tx, failAt) == tx.n + 1 = failAt

Failed(tx) == [tx EXCEPT !.n = @ + 1, !.err = "ErrSQL"]

\* A successful statement that leaves the database as newDB.
Executed(tx, newDB) == [tx EXCEPT !.n = @ + 1, !.db = newDB]

\* tx.ExecContext: the statement fails, or it leaves the database as newDB.
Exec(tx, failAt, newDB) ==
    IF Failing(tx, failAt) THEN Failed(tx) ELSE Executed(tx, newDB)

\* tx.QueryRowContext: the SELECT fails, or it reads the database.
Query(tx, failAt) == Exec(tx, failAt, tx.db)

\* conn.BeginTx
OpenTx(d) == [before |-> d, db |-> d, n |-> 0, err |-> nil, state |-> "open"]

BeginTx(d, failAt) ==
    IF Failing(OpenTx(d), failAt)
    THEN [Failed(OpenTx(d)) EXCEPT !.state = "none"]
    ELSE Executed(OpenTx(d), d)

\* A rollback that commits the work instead.
RollbackCommits(tx) ==
    IF tx.state = "open" THEN [tx EXCEPT !.state = "committed"] ELSE tx

\* tx.Rollback: the work of the transaction is discarded.  On a transaction
\* that is already done it changes nothing.
Rollback(tx) ==
    IF tx.state = "open" THEN [tx EXCEPT !.db = tx.before, !.state = "rolledback"] ELSE tx

\* tx.Commit: a failed COMMIT is rolled back by the driver.
Commit(tx, failAt) ==
    IF tx.state # "open" THEN [tx EXCEPT !.err = "ErrTxDone"]
    ELSE IF Failing(tx, failAt)
    THEN [Failed(tx) EXCEPT !.db = tx.before, !.state = "rolledback"]
    ELSE [Executed(tx, tx.db) EXCEPT !.state = "committed"]

\* The database other connections see once the call has returned.
Persisted(tx) == IF tx.state = "committed" THEN tx.db ELSE tx.before

\* The ids of the rows of a table.
RowIds(table) == 1..Len(table)

\* Scan reads the first row of the result.
FirstRow(ids) == CHOOSE i \in ids : \A j \in ids : i <= j

Insert(d, tableName, row) == [d EXCEPT ![tableName] = Append(@, row)]

\* The rows SELECT id FROM Person WHERE name = ? returns.
FindPerson(d, person) == {i \in RowIds(d.Person) : d.Person[i].name = person}

\* An insert that binds the two ids in the other order.
linkPersonSwapped(tx, trackId, personId, failAt) ==
    IF tx.err # nil THEN tx
    ELSE Exec(tx, failAt, Insert(tx.db, "Track_Person",
                                 [track |-> personId, person |-> trackId]))

\* addPerson, the Track_Person insert.
linkPerson(tx, trackId, personId, failAt) ==
    IF tx.err # nil THEN tx
    ELSE Exec(tx, failAt, Insert(tx.db, "Track_Person",
                                 [track |-> trackId, person |-> personId]))

\* addPerson, after the SELECT: the person found is used, or one is inserted
\* and LastInsertId is its id.
resolvePerson(tx, trackId, person, failAt) ==
    IF tx.err # nil THEN tx
    ELSE IF FindPerson(tx.db, person) # {}
    THEN linkPerson(tx, trackId, FirstRow(FindPerson(tx.db, person)), failAt)
    ELSE linkPerson(Exec(tx, failAt, Insert(tx.db, "Person", [name |-> person])),
                    trackId, Len(tx.db.Person) + 1, failAt)

addPerson(tx, trackId, person, failAt) ==
    IF Len(person) = 0 THEN tx
    ELSE resolvePerson(Query(tx, failAt), trackId, person, failAt)

\* insertPersons: the loops over the three lists, run over their
\* concatenation; seen is artSet.
RECURSIVE insertPersonsFrom(_, _, _, _, _)
RECURSIVE insertPersonsNext(_, _, _, _, _)
\* A loop that does not record the name in artSet.
insertPersonsNextForgets(tx, trackId, list, seen, failAt) ==
    IF tx.err # nil
    THEN Rollback(tx)
    ELSE insertPersonsFrom(tx, trackId, Tail(list), seen, failAt)

insertPersonsNext(tx, trackId, list, seen, failAt) ==
    IF tx.err # nil
    THEN Rollback(tx)
    ELSE insertPersonsFrom(tx, trackId, Tail(list), seen \cup {Head(list)}, failAt)

insertPersonsFrom(tx, trackId, list, seen, failAt) ==
    IF list = <<>> THEN tx
    ELSE IF Head(list) \in seen
    THEN insertPersonsFrom(tx, trackId, Tail(list), seen, failAt)
    ELSE insertPersonsNext(addPerson(tx, trackId, Head(list), failAt),
                           trackId, list, seen, failAt)

insertPersons(tx, trackId, persons, failAt) ==
    insertPersonsFrom(tx, trackId, persons[1] \o persons[2] \o persons[3], {}, failAt)

\* The rows SELECT id FROM Album WHERE id = ? returns.
FindAlbum(d, id) == {i \in RowIds(d.Album) : i = id}

\* getAlbum, after the INSERT: LastInsertId.
getAlbumInserted(tx) ==
    [tx |-> tx, id |-> IF tx.err # nil THEN 0 ELSE Len(tx.db.Album)]

\* getAlbum, after the SELECT.  The lookup compares the id column with id,
\* which holds its zero value.
getAlbumFound(tx, name, id, failAt) ==
    IF tx.err # nil THEN [tx |-> tx, id |-> 0]
    ELSE IF FindAlbum(tx.db, id) # {}
    THEN [tx |-> tx, id |-> FirstRow(FindAlbum(tx.db, id))]
    ELSE getAlbumInserted(Exec(tx, failAt, Insert(tx.db, "Album", [title |-> name])))

\* getAlbum: the transaction and the album id.
getAlbum(tx, name, failAt) ==
    IF Len(name) = 0 THEN [tx |-> [tx EXCEPT !.err = ErrInvalidAlbumName], id |-> 0]
    ELSE getAlbumFound(Query(tx, failAt), name, 0, failAt)

\* A lookup that matches the external track id.
FindTrackByTrackId(d, title, trackId, url) ==
    {i \in RowIds(d.Track) : d.Track[i].trackId = trackId}

\* A lookup that compares the id column with a variable never set.
FindTrackByZeroId(d, title, trackId, url) ==
    {i \in RowIds(d.Track) : i = 0}

\* The rows of Track that SELECT id FROM Track WHERE url = ? AND title = ? returns.
FindTrack(d, title, trackId, url) ==
    {i \in RowIds(d.Track) : d.Track[i].url = url /\ d.Track[i].title = title}

\* getTrack, after the INSERT into Track: LastInsertId, then insertPersons.
getTrackInserted(tx, persons, failAt) ==
    IF tx.err # nil THEN [tx |-> tx, id |-> 0]
    ELSE [tx |-> insertPersons(tx, Len(tx.db.Track), persons, failAt),
          id |-> Len(tx.db.Track)]

\* getTrack, the INSERT into Track with the album resolved (NULL for none).
getTrackInsert(alb, title, trackId, url, persons, failAt) ==
    IF alb.tx.err # nil THEN [tx |-> alb.tx, id |-> 0]
    ELSE getTrackInserted(
            Exec(alb.tx, failAt,
                 Insert(alb.tx.db, "Track",
                        [title |-> title, trackId |-> trackId, url |-> url,
                         album |-> alb.id])),
            persons, failAt)

\* A lookup that links the persons to the track it found as well.
getTrackFoundRelinks(tx, title, trackId, url, album, persons, failAt) ==
    IF tx.err # nil THEN [tx |-> tx, id |-> 0]
    ELSE IF FindTrack(tx.db, title, trackId, url) # {}
    THEN [tx |-> insertPersons(tx, FirstRow(FindTrack(tx.db, title, trackId, url)),
                               persons, failAt),
          id |-> FirstRow(FindTrack(tx.db, title, trackId, url))]
    ELSE getTrackInsert(IF Len(album) > 0 THEN getAlbum(tx, album, failAt)
                        ELSE [tx |-> tx, id |-> NULL],
                        title, trackId, url, persons, failAt)

\* getTrack, after the SELECT.
getTrackFound(tx, title, trackId, url, album, persons, failAt) ==
    IF tx.err # nil THEN [tx |-> tx, id |-> 0]
    ELSE IF FindTrack(tx.db, title, trackId, url) # {}
    THEN [tx |-> tx, id |-> FirstRow(FindTrack(tx.db, title, trackId, url))]
    ELSE getTrackInsert(IF Len(album) > 0 THEN getAlbum(tx, album, failAt)
                        ELSE [tx |-> tx, id |-> NULL],
                        title, trackId, url, persons, failAt)

\* getTrack: the transaction and the track id.
getTrack(tx, title, trackId, url, album, persons, failAt) ==
    getTrackFound(Query(tx, failAt), title, trackId, url, album, persons, failAt)

\* What a call of StoreData leaves: the database after the call, the error
\* returned, whether a transaction was opened, the number of statements sent
\* and the track id resolved.
Outcome(tx, id) ==
    [db |-> Persisted(tx), err |-> tx.err, began |-> tx.state # "none",
     stmts |-> tx.n, track |-> id]

\* StoreData, after the INSERT into TrackLog.
storeCommit(tx, id, failAt) ==
    IF tx.err # nil THEN Outcome(Rollback(tx), 0)
    ELSE Outcome(Commit(tx, failAt), id)

\* A StoreData that sends the TrackLog statement without a row.
storeLogUnlogged(got, failAt, now) ==
    IF got.tx.err # nil THEN Outcome(Rollback(got.tx), 0)
    ELSE storeCommit(Exec(got.tx, failAt, got.tx.db), got.id, failAt)

\* StoreData, after getTrack.
storeLog(got, failAt, now) ==
    IF got.tx.err # nil THEN Outcome(Rollback(got.tx), 0)
    ELSE storeCommit(Exec(got.tx, failAt,
                          Insert(got.tx.db, "TrackLog",
                                 [track |-> got.id, timestamp |-> now])),
                     got.id, failAt)

\* StoreData, after BeginTx.
storeTrack(tx, data, failAt, now) ==
    IF tx.err # nil THEN Outcome(tx, 0)
    ELSE storeLog(getTrack(tx, data.Title, data.TrackId, data.Url, data.Album,
                           <<data.AlbumArtist, data.Artist, data.Composer>>, failAt),
                  failAt, now)

\* A StoreData without the check for a record with no title and no url.
StoreDataUnguarded(d, data, failAt, now) ==
    storeTrack(BeginTx(d, failAt), data, failAt, now)

StoreData(d, data, failAt, now) ==
    IF Len(data.Title) = 0 /\ Len(data.Url) = 0
    THEN [db |-> d, err |-> nil, began |-> FALSE, stmts |-> 0, track |-> 0]
    ELSE storeTrack(BeginTx(d, failAt), data, failAt, now)

(***************************************************************************)
(* The records the callback stores, and the calls of StoreData.  call      *)
(* records the call made last.                                             *)
(***************************************************************************)
\* The most statements one StoreData call of the model sends.
MaxStmts == 13

StoreIdentities ==
    {<<EmptyStr, EmptyStr>>, <<<<"t">>, <<"u">>>>, <<<<"t2">>, <<"u">>>>, <<<<"t">>, EmptyStr>>}

StoreAlbums == {<<EmptyStr, EmptyStr>>, <<<<"a">>, <<"x">>>>}

StorePersons ==
    {<< <<>>, <<>>, <<>> >>,
     << <<>>, <<<<"p">>>>, <<<<"p">>>> >>,
     << <<<<"q">>>>, <<<<"p">>, EmptyStr>>, <<>> >>}

StoreRecords ==
    {Metadata(al[1], ps[1], id[2], ps[2], ps[3], al[2], id[1]) :
        id \in StoreIdentities, al \in StoreAlbums, ps \in StorePersons}

\* The call returned no error for a record with a title or a url.
Accepted(r, data) == r.err = nil /\ (Len(data.Title) # 0 \/ Len(data.Url) # 0)

\* The call returned r.
Returned(r, data, failAt) ==
    /\ failAt <= r.stmts
    /\ db' = r.db
    /\ call' = [data |-> data, failAt |-> failAt, err |-> r.err,
                began |-> r.began, track |-> r.track, before |-> db]
    /\ nCalls' = nCalls + 1
    /\ nAccepted' = nAccepted + (IF Accepted(r, data) THEN 1 ELSE 0)
    /\ UNCHANGED txs

\* The callback of main: one call of StoreData.
Store ==
    /\ nCalls < MaxCalls
    /\ \E data \in StoreRecords, failAt \in 0..MaxStmts :
          Returned(StoreData(db, data, failAt, nCalls + 1), data, failAt)
    /\ UNCHANGED <<watchVars, unitVars>>

(***************************************************************************)
(* Concurrent calls of StoreData on connections of one SQLite database in  *)
(* its default rollback-journal mode.  A transaction takes the SHARED lock *)
(* with its first SELECT and reads the committed database from then on;    *)
(* its first INSERT takes the RESERVED lock, which one transaction holds   *)
(* at a time; COMMIT takes the PENDING lock, which keeps new readers out,  *)
(* and writes once no other transaction holds SHARED.  A statement that    *)
(* cannot take its lock waits in the busy handler or fails with            *)
(* SQLITE_BUSY.  txs[w] is the call of worker w: its phase ("idle", "read" *)
(* holding SHARED, "written" holding RESERVED, "pending"), the record, the *)
(* database it read (view), and the error and track id of the call it      *)
(* made last.                                                              *)
(***************************************************************************)
Workers == {1, 2}

\* The calls the workers make in all.
MaxConcCalls == 3

IdleTx ==
    [phase |-> "idle",
     data |-> Metadata(EmptyStr, <<>>, EmptyStr, <<>>, <<>>, EmptyStr, EmptyStr),
     view |-> EmptyDB, now |-> 0, err |-> nil, track |-> 0]

\* The records of the concurrent plays: one (url, title).
ConcRecords == {data \in StoreRecords : data.Title = <<"t">> /\ data.Url = <<"u">>}

\* The number of the first INSERT of a call: the TrackLog row when the
\* Track row is found, the Album row when an album is named (after the
\* SELECT on Album), the Track row otherwise.
FirstWrite(view, data) ==
    IF FindTrack(view, data.Title, data.TrackId, data.Url) # {} THEN 3
    ELSE IF Len(data.Album) > 0 THEN 4
    ELSE 3

\* The number of the last statement of a call, its COMMIT.
LastStmt(view, data) == StoreData(view, data, 0, 0).stmts

HoldsShared(w) == txs[w].phase \in {"read", "written", "pending"}

HoldsReserved(w) == txs[w].phase \in {"written", "pending"}

HoldsPending(w) == txs[w].phase = "pending"

\* The call of worker w returned r.
TxReturned(w, r) ==
    txs' = [txs EXCEPT ![w] = [@ EXCEPT !.phase = "idle", !.err = r.err,
                                        !.track = r.track]]

\* BeginTx and the SELECT of getTrack: worker w reads the committed database.
TxLookup(w) ==
    /\ txs[w].phase = "idle"
    /\ nCalls < MaxConcCalls
    /\ \A o \in Workers \ {w} : ~HoldsPending(o)
    /\ \E data \in ConcRecords :
          txs' = [txs EXCEPT ![w] = [phase |-> "read", data |-> data, view |-> db,
                                     now |-> nCalls + 1, err |-> nil, track |-> 0]]
    /\ nCalls' = nCalls + 1
    /\ UNCHANGED <<db, call, nAccepted>>

\* The SELECT of getTrack fails: a COMMIT is pending.
TxLookupBusy(w) ==
    /\ txs[w].phase = "idle"
    /\ nCalls < MaxConcCalls
    /\ \E o \in Workers \ {w} : HoldsPending(o)
    /\ \E data \in ConcRecords :
          txs' = [txs EXCEPT ![w] = [phase |-> "idle", data |-> data, view |-> db,
                                     now |-> nCalls + 1,
                                     err |-> StoreData(db, data, 2, nCalls + 1).err,
                                     track |-> 0]]
    /\ nCalls' = nCalls + 1
    /\ UNCHANGED <<db, call, nAccepted>>

\* The first INSERT takes the RESERVED lock; the statements up to the
\* INSERT into TrackLog follow in the transaction.
TxWrite(w) ==
    /\ txs[w].phase = "read"
    /\ \A o \in Workers \ {w} : ~HoldsReserved(o)
    /\ txs' = [txs EXCEPT ![w].phase = "written"]
    /\ UNCHANGED <<db, call, nCalls, nAccepted>>

\* The first INSERT fails: another transaction holds RESERVED.  The call
\* rolls back and returns the error.
TxWriteBusy(w) ==
    /\ txs[w].phase = "read"
    /\ \E o \in Workers \ {w} : HoldsReserved(o)
    /\ TxReturned(w, StoreData(txs[w].view, txs[w].data,
                               FirstWrite(txs[w].view, txs[w].data), txs[w].now))
    /\ UNCHANGED <<db, call, nCalls, nAccepted>>

\* COMMIT finds readers: it keeps PENDING and waits in the busy handler.
TxCommitWait(w) ==
    /\ txs[w].phase = "written"
    /\ \E o \in Workers \ {w} : HoldsShared(o)
    /\ txs' = [txs EXCEPT ![w].phase = "pending"]
    /\ UNCHANGED <<db, call, nCalls, nAccepted>>

\* COMMIT: no other transaction holds SHARED, the work is written.
TxCommit(w) ==
    /\ txs[w].phase \in {"written", "pending"}
    /\ \A o \in Workers \ {w} : ~HoldsShared(o)
    /\ db' = StoreData(txs[w].view, txs[w].data, 0, txs[w].now).db
    /\ TxReturned(w, StoreData(txs[w].view, txs[w].data, 0, txs[w].now))
    /\ UNCHANGED <<call, nCalls, nAccepted>>

\* COMMIT fails: the readers stayed.  The driver rolls the transaction back.
TxCommitBusy(w) ==
    /\ txs[w].phase \in {"written", "pending"}
    /\ \E o \in Workers \ {w} : HoldsShared(o)
    /\ TxReturned(w, StoreData(txs[w].view, txs[w].data,
                               LastStmt(txs[w].view, txs[w].data), txs[w].now))
    /\ UNCHANGED <<db, call, nCalls, nAccepted>>

WatchInit ==
    /\ pc = "setup"
    /\ ret = "none"
    /\ sigPending = FALSE
    /\ busNameToName = EmptyMap
    /\ nameToBusName = EmptyMap
    /\ nameToCurrent = EmptyMap
    /\ ev = NoEvent

StoreInit ==
    /\ db = EmptyDB
    /\ call = [data |-> Metadata(EmptyStr, <<>>, EmptyStr, <<>>, <<>>, EmptyStr, EmptyStr),
               failAt |-> 0, err |-> nil, began |-> FALSE, track |-> 0,
               before |-> EmptyDB]
    /\ nCalls = 0
    /\ nAccepted = 0
    /\ txs = [w \in Workers |-> IdleTx]

(***************************************************************************)
(* Calls of the decoder and of the registry functions on their own.  dec   *)
(* is the call of parseMetadata made last: the property map, the record    *)
(* returned and the log lines written.  op is the call of addPlayer or     *)
(* removePlayer made last: the function, the name, the registry it found   *)
(* (pre), the error returned and the log lines written.                    *)
(***************************************************************************)
\* The values a player may send under a key that decodes to a string.
StringKeyVals == {Absent, VStr(<<"v">>), VList(<< <<"p">> >>)}

\* The values a player may send under a key that decodes to a []string.
ListKeyVals == {Absent, VList(<< <<"p">>, <<"q">> >>), VStr(<<"v">>)}

\* The property maps handed to parseMetadata: every recognized key absent,
\* of its type or of another type, with or without a key it does not know.
DecodeMaps ==
    {MkMap(("xesam:album" :> album) @@ ("xesam:albumArtist" :> albumArtist)
           @@ ("xesam:url" :> url) @@ ("xesam:artist" :> artist)
           @@ ("xesam:composer" :> composer) @@ ("mb:trackId" :> trackId)
           @@ ("xesam:title" :> title) @@ ("xesam:genre" :> genre)) :
        album \in StringKeyVals, albumArtist \in ListKeyVals, url \in StringKeyVals,
        artist \in ListKeyVals, composer \in ListKeyVals, trackId \in StringKeyVals,
        title \in StringKeyVals \cup {VInt}, genre \in {Absent, VList(<< <<"g">> >>)}}

\* A property map received and not yet decoded.
Undecoded(raw) ==
    [raw |-> raw, done |-> FALSE, rec |-> parseMetadata(EmptyMap), logs |-> {}]

Decoded(raw) ==
    [raw |-> raw, done |-> TRUE, rec |-> parseMetadata(raw),
     logs |-> parseMetadataLogs(raw)]

\* The call of parseMetadata on the map received.
Decode ==
    /\ ~dec.done
    /\ dec' = Decoded(dec.raw)
    /\ UNCHANGED <<watchVars, storeVars, op>>

NoOp ==
    [fn |-> "none", name |-> EmptyStr,
     pre |-> [busNameToName |-> EmptyMap, nameToBusName |-> EmptyMap,
              nameToCurrent |-> EmptyMap],
     err |-> nil, logs |-> {},
     prev |-> [fn |-> "none", name |-> EmptyStr, err |-> nil, fromEmpty |-> FALSE]]

\* The service names the registry functions are called with.
PlayerNames == {Demo, Playerctld}

\* What a call keeps of the call before it: the function, the name, the
\* error, and whether it found both maps empty.
Brief(o) ==
    [fn |-> o.fn, name |-> o.name, err |-> o.err,
     fromEmpty |-> o.pre.busNameToName = EmptyMap /\ o.pre.nameToBusName = EmptyMap]

\* The call of fn with name on the registry as it is.
Called(fn, name, err, logs) ==
    [fn |-> fn, name |-> name,
     pre |-> [busNameToName |-> busNameToName, nameToBusName |-> nameToBusName,
              nameToCurrent |-> nameToCurrent],
     err |-> err, logs |-> logs, prev |-> Brief(op)]

\* The registry after a call that returned r.
Registry(r, cur) ==
    /\ busNameToName' = r.busNameToName
    /\ nameToBusName' = r.nameToBusName
    /\ nameToCurrent' = cur
    /\ UNCHANGED <<pc, ret, sigPending, ev, dec, storeVars>>

\* A call of addPlayer(conn, name).
AddPlayerCall ==
    \E name \in PlayerNames, lookup \in LookupReplies :
        /\ Registry(addPlayer(busNameToName, nameToBusName, name, lookup), nameToCurrent)
        /\ op' = Called("addPlayer", name,
                        addPlayer(busNameToName, nameToBusName, name, lookup).err, {})

\* A call of removePlayer(name).
RemovePlayerCall ==
    \E name \in PlayerNames :
    \E pick \in ScanPicks(busNameToName, name) :
        /\ Registry(removePlayer(busNameToName, nameToBusName, name, pick), nameToCurrent)
        /\ op' = Called("removePlayer", name, nil,
                        removePlayer(busNameToName, nameToBusName, name, pick).logs)

\* The handler's result written to the registry.
Handled(name, r) ==
    /\ Registry(r, r.nameToCurrent)
    /\ op' = Called("handleNewPlayer", name, r.err, r.logs)

\* A call of handleNewPlayer with the signal of a player that connects.
ConnectCall ==
    \E name \in PlayerNames, lookup \in LookupReplies, fetch \in FetchReplies :
        Handled(name, handleNewPlayer(busNameToName, nameToBusName, nameToCurrent,
                                      <<VStr(name), VStr(EmptyStr), VStr(Conn1)>>,
                                      lookup, fetch, nil, EmptyStr))

UnitInit ==
    /\ dec = Decoded(EmptyMap)
    /\ op = NoOp

\* The decoder is handed any of the property maps.
DecodeInit ==
    /\ WatchInit
    /\ StoreInit
    /\ op = NoOp
    /\ \E raw \in DecodeMaps : dec = Undecoded(raw)

Init == WatchInit /\ StoreInit /\ UnitInit

Next ==
    \/ Subscribe
    \/ OwnerChanged
    \/ PropertiesChanged
    \/ OtherSignal
    \/ DeliverOSSignal
    \/ Shutdown

Spec == Init /\ [][Next]_vars

\* Go's select picks among the ready cases at random, so a pending OS
\* signal is not passed over forever.
FairSpec == Spec /\ WF_vars(Shutdown)

StoreNext == Store

StoreSpec == Init /\ [][StoreNext]_vars

Lookup == \E w \in Workers : TxLookup(w) /\ UNCHANGED <<watchVars, unitVars>>

LookupBusy == \E w \in Workers : TxLookupBusy(w) /\ UNCHANGED <<watchVars, unitVars>>

Write == \E w \in Workers : TxWrite(w) /\ UNCHANGED <<watchVars, unitVars>>

WriteBusy == \E w \in Workers : TxWriteBusy(w) /\ UNCHANGED <<watchVars, unitVars>>

CommitWait == \E w \in Workers : TxCommitWait(w) /\ UNCHANGED <<watchVars, unitVars>>

CommitTx == \E w \in Workers : TxCommit(w) /\ UNCHANGED <<watchVars, unitVars>>

CommitBusy == \E w \in Workers : TxCommitBusy(w) /\ UNCHANGED <<watchVars, unitVars>>

ConcNext ==
    \/ Lookup
    \/ LookupBusy
    \/ Write
    \/ WriteBusy
    \/ CommitWait
    \/ CommitTx
    \/ CommitBusy

ConcSpec == Init /\ [][ConcNext]_vars

DecodeNext == Decode

RegistryNext ==
    \/ AddPlayerCall
    \/ RemovePlayerCall
    \/ ConnectCall

RegistrySpec == Init /\ [][RegistryNext]_vars

\* A second player that is not filtered.
Vlc == playerPrefix \o <<"vlc">>

Conn3 == <<":1.", "12">>

ConnectingPlayers == {Demo, Vlc, Playerctld}

\* Each player has a connection of its own.
OwnerOf(name) ==
    CASE name = Demo -> Conn1
      [] name = Vlc -> Conn2
      [] OTHER -> Conn3

\* case sig := <-dbusChan, sig.Name = nameOwnerSignal, for the signal of a
\* player that connects.
PlayerConnects ==
    /\ pc = "running"
    /\ \E name \in ConnectingPlayers :
       \E lookup \in {LookupFailed, LookupOk(OwnerOf(name))} :
       LET body == <<VStr(name), VStr(EmptyStr), VStr(OwnerOf(name))>>
           dry == handleNewPlayer(busNameToName, nameToBusName, nameToCurrent,
                                  body, lookup, FetchFailed, nil, EmptyStr)
       IN
       \E fetch \in Drawn(dry.fetches # <<>>, FetchReplies, FetchFailed) :
       \E cbErr \in Drawn(fetch.ok, CallbackErrors, nil) :
          Dispatch("owner", BusDaemon, body, lookup, fetch,
                   handleNewPlayer(busNameToName, nameToBusName, nameToCurrent,
                                   body, lookup, fetch, cbErr, EmptyStr))
    /\ UNCHANGED <<storeVars, unitVars>>

\* case sig := <-dbusChan, sig.Name = propertySignal, sent by any of the
\* players' connections.
PlayerChanges ==
    /\ pc = "running"
    /\ \E name \in ConnectingPlayers, body \in PropBodies :
       LET dry == handlePropertyChange(busNameToName, nameToBusName, nameToCurrent,
                                       OwnerOf(name), body, nil)
       IN
       \E cbErr \in Drawn(dry.cb # <<>>, CallbackErrors, nil) :
          Dispatch("prop", OwnerOf(name), body, LookupFailed, FetchFailed,
                   handlePropertyChange(busNameToName, nameToBusName, nameToCurrent,
                                        OwnerOf(name), body, cbErr))
    /\ UNCHANGED <<storeVars, unitVars>>

\* The loop with several players connected.
PlayersNext ==
    \/ Subscribe
    \/ PlayerConnects
    \/ PlayerChanges

PlayersSpec == Init /\ [][PlayersNext]_vars

DecodeSpec == DecodeInit /\ [][DecodeNext]_vars

(***************************************************************************)
(* Vocabulary of the properties.                                           *)
(***************************************************************************)
\* The last signal handled was an ownership change of three strings.
OwnerSignal ==
    /\ ev.kind = "owner"
    /\ Len(ev.body) = 3
    /\ \A i \in 1..3 : ev.body[i].t = "s"

ChangedName == ev.body[1].v

PriorOwner == ev.body[2].v

NewOwner == ev.body[3].v

PlayerOwnerSignal == OwnerSignal /\ HasPrefix(ChangedName, playerPrefix)

ConnectSignal == PlayerOwnerSignal /\ PriorOwner = EmptyStr /\ NewOwner # EmptyStr

DisconnectSignal == PlayerOwnerSignal /\ PriorOwner # EmptyStr /\ NewOwner = EmptyStr

\* name ends in a suffix of the blocklist of aggregator players.
Blocklisted(name) == HasSuffix(name, <<"playerctld">>)

\* name is registered in both maps.
Registered(b2n, n2b, name) ==
    /\ name \in DOMAIN n2b
    /\ n2b[name] \in DOMAIN b2n
    /\ b2n[n2b[name]] = name

\* name is in neither map.
Unregistered(b2n, n2b, name) ==
    /\ name \notin DOMAIN n2b
    /\ \A b \in DOMAIN b2n : b2n[b] # name

RegistryUnchanged ==
    /\ busNameToName = ev.pre.busNameToName
    /\ nameToBusName = ev.pre.nameToBusName

CacheUnchanged == nameToCurrent = ev.pre.nameToCurrent

\* The last signal handled was a property change from a sender the registry
\* resolved to a player that is not filtered.
KnownPlayerSignal ==
    /\ ev.kind = "prop"
    /\ ev.sender \in DOMAIN ev.pre.busNameToName
    /\ ~Blocklisted(ev.pre.busNameToName[ev.sender])

SendingPlayer == ev.pre.busNameToName[ev.sender]

\* The handler reached the decoder: the body carries a changed-property map
\* with a Metadata map and no PlaybackStatus.
DecodedSignal ==
    /\ KnownPlayerSignal
    /\ Len(ev.body) >= 2
    /\ ev.body[2].t = "d"
    /\ "PlaybackStatus" \notin DOMAIN ev.body[2].v
    /\ "Metadata" \in DOMAIN ev.body[2].v
    /\ ev.body[2].v["Metadata"].t = "d"

DecodedRecord == parseMetadata(ev.body[2].v["Metadata"].v)

(***************************************************************************)
(* C1  Duplicate suppression.  When handlePropertyChange decodes a record  *)
(* for a registered, non-filtered player whose cache holds a record of the *)
(* same url: the callback is not invoked when the title is the same too,   *)
(* whatever the album and the external track id, and it is invoked with    *)
(* the decoded record when the title differs.                              *)
(***************************************************************************)
C1_DuplicateSuppression ==
    (DecodedSignal /\ SendingPlayer \in DOMAIN ev.pre.nameToCurrent) =>
        LET cached == ev.pre.nameToCurrent[SendingPlayer]
        IN /\ (DecodedRecord.Url = cached.Url /\ DecodedRecord.Title = cached.Title)
                => ev.cb = <<>>
           /\ (DecodedRecord.Url = cached.Url /\ DecodedRecord.Title # cached.Title)
                => ev.cb = <<DecodedRecord>>

\* A re-announcement of the cached track with another album and track id.
C1_Witness ==
    /\ DecodedSignal
    /\ SendingPlayer \in DOMAIN ev.pre.nameToCurrent
    /\ LET cached == ev.pre.nameToCurrent[SendingPlayer]
       IN /\ DecodedRecord.Url = cached.Url
          /\ DecodedRecord.Title = cached.Title
          /\ DecodedRecord.Album # cached.Album
          /\ DecodedRecord.TrackId # cached.TrackId
          /\ ev.cb = <<>>

(***************************************************************************)
(* C2  Connect handling.  After a connect signal (prior owner empty, new   *)
(* owner non-empty) for a player-prefixed, non-filtered name whose lookup  *)
(* and fetch both succeeded, the player is in both registry maps, its      *)
(* cache is the fetched record and the callback was invoked exactly once,  *)
(* with that record; a property change that follows from the registered    *)
(* connection with the same Metadata does not invoke the callback.         *)
(***************************************************************************)
C2_ConnectHandling ==
    (ConnectSignal /\ ~Blocklisted(ChangedName) /\ ev.lookup.ok /\ ev.fetch.ok) =>
        LET fetched == parseMetadata(ev.fetch.meta)
            following == PropBody(VDict(MkMap([Metadata |-> VDict(ev.fetch.meta),
                                               PlaybackStatus |-> Absent])))
        IN /\ Registered(busNameToName, nameToBusName, ChangedName)
           /\ nameToBusName[ChangedName] = ev.lookup.busName
           /\ ChangedName \in DOMAIN nameToCurrent
           /\ nameToCurrent[ChangedName] = fetched
           /\ ev.cb = <<fetched>>
           /\ \A cbErr \in CallbackErrors :
                handlePropertyChange(busNameToName, nameToBusName, nameToCurrent,
                                     ev.lookup.busName, following, cbErr).cb = <<>>

\* A player that reconnects under a new connection id.
C2_Witness ==
    /\ ConnectSignal
    /\ ChangedName = Demo
    /\ ev.lookup.ok
    /\ ev.fetch.ok
    /\ Demo \in DOMAIN ev.pre.nameToBusName
    /\ ev.pre.nameToBusName[Demo] # ev.lookup.busName
    /\ ev.cb # <<>>

(***************************************************************************)
(* C3  Presence-change classification.  A three-string signal for a        *)
(* player-prefixed name is handled as a connect (a name-owner lookup is    *)
(* issued to register the player) exactly when the prior owner is empty    *)
(* and the new owner is not, as a disconnect (the player is in neither map *)
(* afterwards) exactly when the prior owner is not empty and the new owner *)
(* is, and is ignored otherwise: no registry change, no lookup, no fetch,  *)
(* no callback.                                                            *)
(***************************************************************************)
C3_PresenceClassification ==
    PlayerOwnerSignal =>
        /\ ConnectSignal => ev.lookups = <<ChangedName>>
        /\ DisconnectSignal =>
            /\ ev.lookups = <<>>
            /\ Unregistered(busNameToName, nameToBusName, ChangedName)
        /\ (~ConnectSignal /\ ~DisconnectSignal) =>
            /\ RegistryUnchanged
            /\ CacheUnchanged
            /\ ev.lookups = <<>>
            /\ ev.fetches = <<>>
            /\ ev.cb = <<>>

(***************************************************************************)
(* C4  A disconnect signal (prior owner non-empty, new owner empty) for a  *)
(* player-prefixed name issues no name-owner lookup and no metadata fetch, *)
(* invokes no callback, and changes the registry as removePlayer does and  *)
(* nothing else.                                                           *)
(***************************************************************************)
C4_DisconnectOnlyUnregisters ==
    DisconnectSignal =>
        /\ ev.lookups = <<>>
        /\ ev.fetches = <<>>
        /\ ev.cb = <<>>
        /\ CacheUnchanged
        /\ \E pick \in ScanPicks(ev.pre.busNameToName, ChangedName) :
            LET removed == removePlayer(ev.pre.busNameToName, ev.pre.nameToBusName,
                                        ChangedName, pick)
            IN /\ busNameToName = removed.busNameToName
               /\ nameToBusName = removed.nameToBusName

(***************************************************************************)
(* C5  Loop resilience.  Once both subscriptions succeeded the dispatch    *)
(* loop keeps running whatever signals arrive and whatever fails; it       *)
(* returns only on an OS termination signal.                               *)
(***************************************************************************)
C5_LoopResilience ==
    \/ pc \in {"setup", "running"}
    \/ pc = "returned" /\ ret = "ErrSubscribe"
    \/ pc = "returned" /\ ret = nil /\ ev.kind = "shutdown"

(***************************************************************************)
(* C6  Every error a per-signal handler returns is logged by the event     *)
(* loop before the next signal is handled.                                 *)
(***************************************************************************)
C6_HandlerErrorsLogged ==
    (ev.kind \in {"owner", "prop"} /\ ~ev.panicked /\ ev.err # nil) =>
        \E entry \in ev.loopLogs : entry.fn = "StartWatching"

(***************************************************************************)
(* C7  Filtered players.  As claimed: every connect signal for a name      *)
(* ending in a blocklisted suffix leaves the player in both registry maps, *)
(* with no fetch, no cache entry and no callback, and no property change   *)
(* from that player's connection invokes the callback.                     *)
(***************************************************************************)
C7_FilteredAlwaysRegistered ==
    /\ (ConnectSignal /\ Blocklisted(ChangedName)) =>
        /\ Registered(busNameToName, nameToBusName, ChangedName)
        /\ ev.fetches = <<>>
        /\ ChangedName \notin DOMAIN nameToCurrent
        /\ ev.cb = <<>>
    /\ (/\ ev.kind = "prop"
        /\ \E n \in DOMAIN ev.pre.nameToBusName :
            Blocklisted(n) /\ ev.pre.nameToBusName[n] = ev.sender)
       => ev.cb = <<>>

(***************************************************************************)
(* C7, amended.  A connect signal for a name ending in a blocklisted       *)
(* suffix leaves the player in both registry maps when its name-owner      *)
(* lookup succeeded; in every case it issues no fetch, creates no cache    *)
(* entry and invokes no callback.  No filtered name ever has a cache       *)
(* entry, and no property change whose sender the registry resolves to a   *)
(* filtered player invokes the callback.                                   *)
(***************************************************************************)
C7_FilteredPlayers ==
    /\ (ConnectSignal /\ Blocklisted(ChangedName)) =>
        /\ ev.lookups = <<ChangedName>>
        /\ ev.lookup.ok =>
            /\ Registered(busNameToName, nameToBusName, ChangedName)
            /\ nameToBusName[ChangedName] = ev.lookup.busName
        /\ ev.fetches = <<>>
        /\ CacheUnchanged
        /\ ev.cb = <<>>
    /\ \A n \in DOMAIN nameToCurrent : ~Blocklisted(n)
    /\ (/\ ev.kind = "prop"
        /\ ev.sender \in DOMAIN ev.pre.busNameToName
        /\ Blocklisted(ev.pre.busNameToName[ev.sender]))
       => (ev.cb = <<>> /\ CacheUnchanged)

\* A Metadata change sent by a registered filtered player.
C7_Witness ==
    /\ ev.kind = "prop"
    /\ ev.sender \in DOMAIN ev.pre.busNameToName
    /\ ev.pre.busNameToName[ev.sender] = Playerctld
    /\ Registered(busNameToName, nameToBusName, Playerctld)
    /\ Len(ev.body) = 3
    /\ ev.body[2].t = "d"
    /\ DOMAIN ev.body[2].v = {"Metadata"}
    /\ ev.body[2].v["Metadata"].t = "d"
    /\ ev.cb = <<>>

(***************************************************************************)
(* C8  Shutdown liveness.  Once an OS termination signal has been          *)
(* delivered, the dispatch loop eventually returns without error.          *)
(***************************************************************************)
C8_ShutdownLiveness == sigPending ~> (pc = "returned" /\ ret = nil)

(***************************************************************************)
(* C9  Atomicity of StoreData.  A call in which a statement fails returns  *)
(* an error, and a call that returns an error leaves the persisted         *)
(* database as it was before the call.                                     *)
(***************************************************************************)
C9_Atomicity ==
    /\ call.failAt # 0 => call.err # nil
    /\ call.err # nil => db = call.before

\* The Track_Person insert of a call that had inserted a track and a person.
C9_Witness ==
    /\ call.err # nil
    /\ call.before = EmptyDB
    /\ call.data.Album = EmptyStr
    /\ call.data.Artist # <<>>
    /\ call.failAt = 6
    /\ db = EmptyDB

(***************************************************************************)
(* C10  Idempotent track resolution.  There is at most one Track row per   *)
(* (url, title); a successful call for a record whose (url, title) has a   *)
(* row resolves to that row's id, logs the play against it and leaves the  *)
(* Track table, so the row's album and external track id, unchanged.       *)
(***************************************************************************)
C10_IdempotentTrack ==
    /\ \A i, j \in 1..Len(db.Track) :
        (db.Track[i].url = db.Track[j].url /\ db.Track[i].title = db.Track[j].title)
            => i = j
    /\ \A i \in 1..Len(call.before.Track) :
        (/\ call.err = nil
         /\ call.began
         /\ call.before.Track[i].url = call.data.Url
         /\ call.before.Track[i].title = call.data.Title)
        => /\ call.track = i
           /\ db.Track = call.before.Track
           /\ db.TrackLog[Len(db.TrackLog)].track = i

\* A second play of a track, reporting another album and track id.
C10_Witness ==
    /\ call.err = nil
    /\ call.began
    /\ \E i \in 1..Len(call.before.Track) :
        /\ call.before.Track[i].url = call.data.Url
        /\ call.before.Track[i].title = call.data.Title
        /\ call.before.Track[i].trackId # call.data.TrackId
        /\ call.before.Track[i].album = NULL
        /\ call.data.Album # EmptyStr
        /\ call.track = i

(***************************************************************************)
(* C11  Album get-or-create by title.  There is at most one Album row per  *)
(* title, so two Track rows stored with the same non-empty album name      *)
(* reference the same Album row.                                           *)
(***************************************************************************)
C11_AlbumByTitle ==
    /\ \A i, j \in 1..Len(db.Album) :
        db.Album[i].title = db.Album[j].title => i = j
    /\ \A i, j \in 1..Len(db.Track) :
        (/\ db.Track[i].album # NULL
         /\ db.Track[j].album # NULL
         /\ db.Album[db.Track[i].album].title = db.Album[db.Track[j].album].title)
        => db.Track[i].album = db.Track[j].album

\* The call made last succeeded and inserted a Track row.
CreatedTrack ==
    /\ call.err = nil
    /\ call.began
    /\ Len(db.Track) = Len(call.before.Track) + 1

\* The non-empty names the record of the call credits, in any role.
CreditedNames ==
    {n \in {call.data.AlbumArtist[i] : i \in 1..Len(call.data.AlbumArtist)}
           \cup {call.data.Artist[i] : i \in 1..Len(call.data.Artist)}
           \cup {call.data.Composer[i] : i \in 1..Len(call.data.Composer)} :
        n # EmptyStr}

\* The Track_Person rows the call made last added.
NewLinks == (Len(call.before.Track_Person) + 1)..Len(db.Track_Person)

\* The new Track_Person rows that link the track of the call to name.
LinksOf(name) ==
    {l \in NewLinks : /\ db.Track_Person[l].track = call.track
                      /\ db.Person[db.Track_Person[l].person].name = name}

(***************************************************************************)
(* C12  Person de-duplication within one call.  A successful call that     *)
(* creates a Track row adds exactly one Track_Person row for each distinct *)
(* non-empty name credited as album artist, artist or composer, however    *)
(* often and in however many roles the name occurs, and no other           *)
(* Track_Person row; no Person row has the empty name.                     *)
(***************************************************************************)
C12_PersonDedup ==
    /\ CreatedTrack =>
        /\ \A name \in CreditedNames : Cardinality(LinksOf(name)) = 1
        /\ \A l \in NewLinks : \E name \in CreditedNames : l \in LinksOf(name)
    /\ \A i \in 1..Len(db.Person) : db.Person[i].name # EmptyStr

\* A new track crediting one person as artist and as composer: one link.
C12_Witness ==
    /\ CreatedTrack
    /\ \E name \in CreditedNames :
        /\ \E i \in 1..Len(call.data.Artist) : call.data.Artist[i] = name
        /\ \E i \in 1..Len(call.data.Composer) : call.data.Composer[i] = name
        /\ Cardinality(LinksOf(name)) = 1
    /\ Cardinality(NewLinks) = 1

\* The call made last succeeded for a record with a title or a url.
AcceptedCall == call.err = nil /\ call.began

C14_PlayLogAccounting ==
    /\ Len(db.TrackLog) = nAccepted
    /\ Len(db.TrackLog) >= Len(call.before.TrackLog)
    /\ \A i \in 1..Len(call.before.TrackLog) : db.TrackLog[i] = call.before.TrackLog[i]
    /\ IF call.err = nil /\ (call.data.Title # EmptyStr \/ call.data.Url # EmptyStr)
       THEN /\ Len(db.TrackLog) = Len(call.before.TrackLog) + 1
            /\ db.TrackLog[Len(db.TrackLog)].track = call.track
            /\ call.track \in 1..Len(db.Track)
            /\ db.Track[call.track].url = call.data.Url
            /\ db.Track[call.track].title = call.data.Title
       ELSE Len(db.TrackLog) = Len(call.before.TrackLog)

\* A second play of a track stored before: two rows for two accepted calls.
C14_Witness ==
    /\ nAccepted = 2
    /\ Len(db.TrackLog) = 2
    /\ db.TrackLog[1].track = db.TrackLog[2].track
    /\ call.err = nil
    /\ call.track = db.TrackLog[2].track

(***************************************************************************)
(* C15  Placeholder records.  A call for a record with an empty title and  *)
(* an empty url returns no error, opens no transaction and leaves every    *)
(* table as it was, whatever the other fields of the record hold.          *)
(***************************************************************************)
C15_PlaceholderNoOp ==
    (call.data.Title = EmptyStr /\ call.data.Url = EmptyStr)
    => /\ call.err = nil
       /\ ~call.began
       /\ db = call.before

\* A placeholder naming an album, a track id and persons, sent to a
\* database that holds a track.
C15_Witness ==
    /\ nCalls = 2
    /\ call.data.Title = EmptyStr
    /\ call.data.Url = EmptyStr
    /\ call.data.Album # EmptyStr
    /\ call.data.TrackId # EmptyStr
    /\ call.data.Artist # <<>>
    /\ call.before.Track # <<>>
    /\ call.err = nil
    /\ db = call.before

RecognizedKeys ==
    {<<"xesam:album", "s", "Album">>, <<"xesam:albumArtist", "as", "AlbumArtist">>,
     <<"xesam:url", "s", "Url">>, <<"xesam:artist", "as", "Artist">>,
     <<"xesam:composer", "as", "Composer">>, <<"mb:trackId", "s", "TrackId">>,
     <<"xesam:title", "s", "Title">>}

\* The property map holds a value of the expected type under the key.
WellTyped(raw, k) == k[1] \in DOMAIN raw /\ raw[k[1]].t = k[2]

\* The property map holds a value of another type under the key.
Mistyped(raw, k) == k[1] \in DOMAIN raw /\ raw[k[1]].t # k[2]

TitleWarning ==
    \E l \in dec.logs : l.level = "WARN" /\ l.fn = "parseMetadata"

(***************************************************************************)
(* C17  Decoder tolerance.  For every property map parseMetadata returns a *)
(* record of the seven fields in which each recognized key whose value has *)
(* the expected type (a string, or a sequence of strings for album artist, *)
(* artist and composer) is copied to its field and every other field is    *)
(* left at its empty default, whatever other keys, recognized or not, the  *)
(* map holds; a mistyped title gives an empty title and a logged warning.  *)
(***************************************************************************)
C17_DecoderTolerance ==
    dec.done =>
        /\ DOMAIN dec.rec = {k[3] : k \in RecognizedKeys}
        /\ \A k \in RecognizedKeys :
            dec.rec[k[3]] = IF WellTyped(dec.raw, k) THEN dec.raw[k[1]].v ELSE <<>>
        /\ Mistyped(dec.raw, <<"xesam:title", "s", "Title">>)
            => dec.rec.Title = EmptyStr /\ TitleWarning

\* A map with a title that is an integer, an album that is a list, an
\* artist that is a string, an unknown key, and a url and composers of the
\* right types.
C17_Witness ==
    /\ dec.done
    /\ Mistyped(dec.raw, <<"xesam:title", "s", "Title">>)
    /\ Mistyped(dec.raw, <<"xesam:album", "s", "Album">>)
    /\ Mistyped(dec.raw, <<"xesam:artist", "as", "Artist">>)
    /\ "xesam:genre" \in DOMAIN dec.raw
    /\ "mb:trackId" \notin DOMAIN dec.raw
    /\ dec.rec.Title = EmptyStr
    /\ dec.rec.Album = EmptyStr
    /\ dec.rec.Url = <<"v">>
    /\ dec.rec.Composer = << <<"p">>, <<"q">> >>
    /\ TitleWarning

(***************************************************************************)
(* C18  Registry consistency.  Between signal handlings the two registry   *)
(* maps are mutual inverses: nameToBusName[n] = b exactly when             *)
(* busNameToName[b] = n, so no connection id that a player has left        *)
(* resolves to a service name.                                             *)
(***************************************************************************)
C18_RegistryConsistent ==
    /\ \A n \in DOMAIN nameToBusName :
        /\ nameToBusName[n] \in DOMAIN busNameToName
        /\ busNameToName[nameToBusName[n]] = n
    /\ \A b \in DOMAIN busNameToName :
        /\ busNameToName[b] \in DOMAIN nameToBusName
        /\ nameToBusName[busNameToName[b]] = b

\* The call made last was removePlayer(name), right after a successful
\* addPlayer(name) that had found both maps empty.
RoundTrip ==
    /\ op.fn = "removePlayer"
    /\ op.prev.fn = "addPlayer"
    /\ op.prev.name = op.name
    /\ op.prev.err = nil
    /\ op.prev.fromEmpty

\* The call made last was removePlayer(name) for a name in neither map.
RemovedUnknown ==
    /\ op.fn = "removePlayer"
    /\ op.name \notin DOMAIN op.pre.nameToBusName
    /\ \A b \in DOMAIN op.pre.busNameToName : op.pre.busNameToName[b] # op.name

(***************************************************************************)
(* C19  Registry round trip.  From empty maps a successful addPlayer(name) *)
(* followed by removePlayer(name) leaves both maps empty.  removePlayer of *)
(* a name in neither map leaves both maps as they were, logs a warning and *)
(* raises no error.                                                        *)
(***************************************************************************)
C19_RegistryRoundTrip ==
    /\ RoundTrip => busNameToName = EmptyMap /\ nameToBusName = EmptyMap
    /\ RemovedUnknown =>
        /\ busNameToName = op.pre.busNameToName
        /\ nameToBusName = op.pre.nameToBusName
        /\ \E l \in op.logs : l.level = "WARN" /\ l.fn = "removePlayer"
        /\ op.err = nil

\* The round trip of the player demo.
C19_Witness ==
    /\ RoundTrip
    /\ op.name = Demo
    /\ op.pre.nameToBusName # EmptyMap
    /\ op.pre.busNameToName # EmptyMap
    /\ busNameToName = EmptyMap
    /\ nameToBusName = EmptyMap

(***************************************************************************)
(* C20  A session is destroyed on disconnect.  After removePlayer(name) no *)
(* state of that service name remains: it is in neither registry map and   *)
(* it has no last-track cache entry, so a track cached before the          *)
(* disconnect is not compared with after it.                               *)
(***************************************************************************)
C20_SessionDestroyed ==
    op.fn = "removePlayer" =>
        /\ op.name \notin DOMAIN nameToBusName
        /\ \A b \in DOMAIN busNameToName : busNameToName[b] # op.name
        /\ op.name \notin DOMAIN nameToCurrent

(***************************************************************************)
(* C21  Failed registration.  When the name-owner lookup of a connect      *)
(* signal fails, neither registry map gains an entry for the player, no    *)
(* last-track cache entry is created for it and no callback is invoked.    *)
(***************************************************************************)
C21_FailedRegistration ==
    (ConnectSignal /\ ev.lookups # <<>> /\ ~ev.lookup.ok) =>
        /\ RegistryUnchanged
        /\ CacheUnchanged
        /\ ev.cb = <<>>

\* The handler of the last signal returned InvalidSignalBody and left the
\* registry maps and the last-track cache as they were.
RejectedBody ==
    /\ ev.err = ErrInvalidSignalBody
    /\ ~ev.panicked
    /\ RegistryUnchanged
    /\ CacheUnchanged

(***************************************************************************)
(* C22  Malformed signal bodies.  handleNewPlayer returns InvalidSignalBody *)
(* for every body that is not exactly three strings; handlePropertyChange, *)
(* for a known sender that is not filtered, returns InvalidSignalBody for  *)
(* every body whose second element is missing or is not a map of changed   *)
(* properties; both leave the registry maps and the cache unchanged.       *)
(***************************************************************************)
C22_MalformedBodies ==
    /\ (ev.kind = "owner" /\ ~OwnerSignal) => RejectedBody
    /\ (KnownPlayerSignal /\ (Len(ev.body) < 2 \/ ev.body[2].t # "d")) => RejectedBody

\* The last signal handled was a property change from a known player that
\* is not filtered, with a map of changed properties.
RoutedSignal ==
    /\ KnownPlayerSignal
    /\ Len(ev.body) >= 2
    /\ ev.body[2].t = "d"

ChangedProps == ev.body[2].v

HasStatus == "PlaybackStatus" \in DOMAIN ChangedProps

HasMetadata == "Metadata" \in DOMAIN ChangedProps /\ ChangedProps["Metadata"].t = "d"

NoMetadata == "Metadata" \notin DOMAIN ChangedProps

\* The notification was ignored without error.
Ignored == ev.err = nil /\ ev.cb = <<>> /\ CacheUnchanged

\* The decoded record is not the track the cache held for the sender.
FreshTrack ==
    \/ SendingPlayer \notin DOMAIN ev.pre.nameToCurrent
    \/ ev.pre.nameToCurrent[SendingPlayer].Url # DecodedRecord.Url
    \/ ev.pre.nameToCurrent[SendingPlayer].Title # DecodedRecord.Title

\* The Metadata property was decoded and passed through the duplicate
\* filter: the callback got the decoded record exactly when it is fresh.
Filtered == ev.cb = IF FreshTrack THEN <<DecodedRecord>> ELSE <<>>

(***************************************************************************)
(* C23  Changed-property routing.  As claimed: for a known player that is  *)
(* not filtered, a notification with a playback status and no Metadata is  *)
(* ignored without error, one with a Metadata map is decoded and filtered  *)
(* whether or not a playback status is present too, and one with neither   *)
(* returns MetadataFailed.                                                 *)
(***************************************************************************)
C23_RoutingAsClaimed ==
    RoutedSignal =>
        /\ (HasStatus /\ NoMetadata) => Ignored
        /\ HasMetadata => Filtered
        /\ (~HasStatus /\ NoMetadata) => ev.err = ErrMetadataFailed

(***************************************************************************)
(* C23, amended.  For a known player that is not filtered, a notification  *)
(* with a playback status is ignored without error whether or not a        *)
(* Metadata property is present too, one with a Metadata map and no        *)
(* playback status is decoded and filtered, and one with neither returns   *)
(* MetadataFailed.                                                         *)
(***************************************************************************)
C23_Routing ==
    RoutedSignal =>
        /\ HasStatus => Ignored
        /\ (~HasStatus /\ HasMetadata) => Filtered
        /\ (~HasStatus /\ NoMetadata) => ev.err = ErrMetadataFailed /\ ev.cb = <<>>

\* A playback status that arrives with the Metadata of a track the cache
\* does not hold.
C23_Witness ==
    /\ RoutedSignal
    /\ HasStatus
    /\ HasMetadata
    /\ SendingPlayer \in DOMAIN ev.pre.nameToCurrent
    /\ FreshTrack
    /\ Ignored

\* The cache entry of the sending player after the signal was handled.
CachedNow == nameToCurrent[SendingPlayer]

(***************************************************************************)
(* C24  Unconditional cache update.  As claimed: after handlePropertyChange*)
(* decodes a Metadata property for a known player that is not filtered,    *)
(* the player's cache entry equals the decoded record in every field, both *)
(* when the callback was invoked and when the record was a duplicate.      *)
(***************************************************************************)
C24_CacheAlwaysUpdated ==
    DecodedSignal =>
        /\ SendingPlayer \in DOMAIN nameToCurrent
        /\ CachedNow = DecodedRecord

(***************************************************************************)
(* C24, amended.  After handlePropertyChange decodes a Metadata property   *)
(* for a known player that is not filtered: when the callback was invoked  *)
(* the player's cache entry equals the decoded record in every field; when *)
(* the record was judged a duplicate the cache is left as it was, and the  *)
(* entry agrees with the decoded record in url and title.                  *)
(***************************************************************************)
C24_CacheUpdatedOnChange ==
    DecodedSignal =>
        /\ SendingPlayer \in DOMAIN nameToCurrent
        /\ ev.cb # <<>> => CachedNow = DecodedRecord
        /\ ev.cb = <<>> =>
            /\ CacheUnchanged
            /\ CachedNow.Url = DecodedRecord.Url
            /\ CachedNow.Title = DecodedRecord.Title

\* A duplicate that carries an album and a track id the cached record does
\* not have: the cache keeps the record without them.
C24_Witness ==
    /\ DecodedSignal
    /\ ev.cb = <<>>
    /\ SendingPlayer \in DOMAIN nameToCurrent
    /\ CachedNow.Album # DecodedRecord.Album
    /\ CachedNow.TrackId # DecodedRecord.TrackId
    /\ CachedNow.Title = DecodedRecord.Title

\* The last signal handled was a property change from a sender the registry
\* does not hold.
UnknownSender ==
    /\ ev.kind = "prop"
    /\ ev.sender \notin DOMAIN ev.pre.busNameToName

\* The last signal handled was a property change from a filtered player.
FilteredSender ==
    /\ ev.kind = "prop"
    /\ ev.sender \in DOMAIN ev.pre.busNameToName
    /\ Blocklisted(ev.pre.busNameToName[ev.sender])

\* The property change was ignored or failed: its sender is unknown or
\* filtered, it carries a playback status, or its Metadata is missing or
\* mistyped.
IgnoredOrFailed ==
    \/ UnknownSender
    \/ FilteredSender
    \/ RoutedSignal /\ (HasStatus \/ ~HasMetadata)

\* Every cache entry but the sending player's is as the signal found it.
OthersUnchanged ==
    \A n \in (DOMAIN nameToCurrent \cup DOMAIN ev.pre.nameToCurrent) \ {SendingPlayer} :
        /\ n \in DOMAIN nameToCurrent
        /\ n \in DOMAIN ev.pre.nameToCurrent
        /\ nameToCurrent[n] = ev.pre.nameToCurrent[n]

(***************************************************************************)
(* C25  Frame of property-change handling.  No property-change signal      *)
(* changes the service-to-connection or the connection-to-service map.  A  *)
(* signal that is ignored or fails invokes no callback and leaves every    *)
(* cache entry unchanged, and returns no error when the sender is unknown  *)
(* or filtered.  A signal whose Metadata is decoded changes no cache entry *)
(* but the sending player's.                                               *)
(***************************************************************************)
C25_PropertyChangeFrame ==
    ev.kind = "prop" =>
        /\ RegistryUnchanged
        /\ IgnoredOrFailed => ev.cb = <<>> /\ CacheUnchanged
        /\ (UnknownSender \/ FilteredSender) => ev.err = nil
        /\ DecodedSignal => OthersUnchanged

\* A player announces a new track while another player has a cached record.
C25_Witness ==
    /\ DecodedSignal
    /\ ev.cb # <<>>
    /\ SendingPlayer \in DOMAIN ev.pre.nameToCurrent
    /\ nameToCurrent[SendingPlayer] # ev.pre.nameToCurrent[SendingPlayer]
    /\ \E n \in DOMAIN ev.pre.nameToCurrent : n # SendingPlayer

\* id is the id of a row of the table.
Refers(id, table) == id \in 1..Len(table)

(***************************************************************************)
(* C26  Referential integrity of the persisted store.  After any sequence  *)
(* of StoreData calls, successful, without effect or failed: the track of  *)
(* every TrackLog row and of every Track_Person row is the id of a Track   *)
(* row, the person of every Track_Person row is the id of a Person row,    *)
(* and the album of every Track row is NULL or the id of an Album row.     *)
(***************************************************************************)
C26_ReferentialIntegrity ==
    /\ \A i \in 1..Len(db.TrackLog) : Refers(db.TrackLog[i].track, db.Track)
    /\ \A i \in 1..Len(db.Track_Person) :
        /\ Refers(db.Track_Person[i].track, db.Track)
        /\ Refers(db.Track_Person[i].person, db.Person)
    /\ \A i \in 1..Len(db.Track) :
        db.Track[i].album # NULL => Refers(db.Track[i].album, db.Album)

\* A call that failed after its transaction began, on a store that holds a
\* track with an album and with links to two persons.
C26_Witness ==
    /\ call.err # nil
    /\ call.began
    /\ call.failAt > 2
    /\ Len(db.TrackLog) > 0
    /\ Len(db.Person) > 1
    /\ Len(db.Track_Person) > 1
    /\ \E i \in 1..Len(db.Track) : db.Track[i].album # NULL

====
